---- MODULE Spec2Model ----
(***************************************************************************)
(* Model of the FHD descriptor library: hdist.py (histogram distances) and *)
(* fhd.py (descriptor container, shape matchings, descriptor distance,     *)
(* dump/load).                                                             *)
(*                                                                         *)
(* Numbers.  The program computes in float64.  The model computes in exact *)
(* integers: a normalized histogram value v in [0,1] is held as v * Scale, *)
(* and a distance d is held as d * Unit, so that sums, comparisons and     *)
(* ties are exact.  The one irrational metric, L2, is held to a fixed      *)
(* resolution of 1/Resolution (floor of the square root).                  *)
(* Layers are indexed 0..N-1 as in the source; histogram buckets are the   *)
(* elements 1..D of a sequence (bucket k of the source is element k+1).    *)
(***************************************************************************)
EXTENDS Integers, Sequences, FiniteSets, TLC

VARIABLES pc, a, b, A, B, metric, matching, alpha, result, file

vars == <<pc, a, b, A, B, metric, matching, alpha, result, file>>

(* ------------------------------ bounds -------------------------------- *)
MaxN == 3
NumDirs == 3
MaxVal == 1
Resolution == 1000

(* ----------------------------- arithmetic ----------------------------- *)
Abs(x) == IF x < 0 THEN -x ELSE x

Min2(x, y) == IF x <= y THEN x ELSE y

Max2(x, y) == IF x >= y THEN x ELSE y

RECURSIVE GCD(_, _)
GCD(x, y) == IF y = 0 THEN x ELSE GCD(y, x % y)

RECURSIVE LCMUpTo(_)
LCMUpTo(n) ==
    IF n <= 1 THEN 1
    ELSE CHOOSE r \in {(l * n) \div GCD(l, n) : l \in {LCMUpTo(n - 1)}} : TRUE

RECURSIVE SqrtBetween(_, _, _)
SqrtBetween(lo, hi, x) ==
    IF lo >= hi THEN lo
    ELSE LET mid == (lo + hi + 1) \div 2
         IN IF mid * mid <= x THEN SqrtBetween(mid, hi, x)
            ELSE SqrtBetween(lo, mid - 1, x)

ISqrt(x) == SqrtBetween(0, Min2(x, 46340), x)

RECURSIVE SumSeq(_)
SumSeq(s) == IF s = <<>> THEN 0 ELSE Head(s) + SumSeq(Tail(s))

MinSeq(s) == CHOOSE x \in {s[k] : k \in DOMAIN s} : \A k \in DOMAIN s : x <= s[k]

MaxSeq(s) == CHOOSE x \in {s[k] : k \in DOMAIN s} : \A k \in DOMAIN s : x >= s[k]

(* Scale: common denominator of every normalized value (max - min ranges   *)
(* over 1..MaxVal).  Unit: common denominator of every distance.           *)
Scale == LCMUpTo(MaxVal)

Denoms == LCMUpTo(Max2(2, NumDirs) * Scale)

Unit == Resolution * Denoms * Scale

(* ------------------------------ hdist.py ------------------------------ *)
metrics ==
    [L1 |-> {"L1", "manhattan", "man"},
     L2 |-> {"L2", "euclidean", "euc"},
     CHI2 |-> {"CHI2", "chi2"},
     CEMD |-> {"CEMD", "cemd"},
     jaccard |-> {"jaccard"}]

(* (a - lo) / (hi - lo) for every bucket.  With hi = lo every bucket is    *)
(* 0 / 0: the result is all NaN.                                           *)
rescale(h, lo, hi) ==
    IF hi = lo
    THEN [nan |-> TRUE, v |-> [k \in DOMAIN h |-> 0]]
    ELSE [nan |-> FALSE, v |-> [k \in DOMAIN h |-> ((h[k] - lo) * Scale) \div (hi - lo)]]

(* _normalized: (a - a.min()) / (a.max() - a.min()) *)
_normalized(h) == rescale(h, MinSeq(h), MaxSeq(h))

Raise(kind, work) == [kind |-> kind, nan |-> FALSE, val |-> 0, normalized |-> work]

Return(isnan, val) ==
    [kind |-> "ok", nan |-> isnan, val |-> IF isnan THEN 0 ELSE val, normalized |-> 2]

(* np.abs(a - b).sum() *)
L1_distance(x, y) ==
    Return(x.nan \/ y.nan,
           (Unit \div Scale) * SumSeq([k \in DOMAIN x.v |-> Abs(x.v[k] - y.v[k])]))

(* np.linalg.norm(a - b) *)
L2_distance(x, y) ==
    Return(x.nan \/ y.nan,
           Denoms * ISqrt(SumSeq([k \in DOMAIN x.v |-> (x.v[k] - y.v[k]) * (x.v[k] - y.v[k])])
                          * Resolution * Resolution))

(* np.nansum(((a - b) ** 2) / (a + b)): a NaN term (0/0, or a NaN operand) *)
(* is left out of the sum.                                                 *)
CHI2_distance(x, y) ==
    Return(FALSE,
           IF x.nan \/ y.nan THEN 0
           ELSE SumSeq([k \in DOMAIN x.v |->
                    IF x.v[k] + y.v[k] = 0 THEN 0
                    ELSE ((x.v[k] - y.v[k]) * (x.v[k] - y.v[k]) * (Unit \div Scale))
                         \div (x.v[k] + y.v[k])]))

(* 1 - np.minimum(a, b).sum() / np.maximum(a, b).sum() *)
jaccard_distance(x, y) ==
    Return(x.nan \/ y.nan,
           IF x.nan \/ y.nan THEN 0
           ELSE Unit - (Unit * SumSeq([k \in DOMAIN x.v |-> Min2(x.v[k], y.v[k])]))
                       \div SumSeq([k \in DOMAIN x.v |-> Max2(x.v[k], y.v[k])]))

(* The if / elif chain on the metric name, on the normalized histograms.   *)
dispatch(nx, ny, m) ==
    IF m \in metrics.L1 THEN L1_distance(nx, ny)
    ELSE IF m \in metrics.L2 THEN L2_distance(nx, ny)
    ELSE IF m \in metrics.CHI2 THEN CHI2_distance(nx, ny)
    ELSE IF m \in metrics.CEMD THEN Raise("NotImplementedError", 2)
    ELSE IF m \in metrics.jaccard THEN jaccard_distance(nx, ny)
    ELSE Raise("ValueError", 2)

(* Variant of hdist_distance that looks the metric up before it compares   *)
(* the lengths.                                                            *)
hdist_distance_metric_first(x, y, m) ==
    IF Len(x) = 0 \/ Len(y) = 0 THEN Raise("ValueError", 0)
    ELSE IF m \in metrics.CEMD THEN Raise("NotImplementedError", 0)
    ELSE IF Len(x) # Len(y) THEN Raise("ValueError", 0)
    ELSE dispatch(_normalized(x), _normalized(y), m)

(* hdist.distance(a, b, metric) with normalized=True, on 1D arrays.        *)
(* "normalized" counts the histograms normalized before the call ended.    *)
hdist_distance(x, y, m) ==
    IF Len(x) = 0 \/ Len(y) = 0 THEN Raise("ValueError", 0)
    ELSE IF Len(x) # Len(y) THEN Raise("ValueError", 0)
    ELSE dispatch(_normalized(x), _normalized(y), m)

(* ------------------------------ inputs -------------------------------- *)
MetricNames ==
    metrics.L1 \cup metrics.L2 \cup metrics.CHI2 \cup metrics.CEMD \cup metrics.jaccard
    \cup {"l1", "emd"}

HistsOfLen(n) == [1..n -> 0..MaxVal]

NoDescriptor == [N |-> 0, num_dirs |-> 0, fhistograms |-> <<>>]

NoResult == [kind |-> "none"]

NoAlpha == [given |-> FALSE, num |-> 0, den |-> 1]

(* ------------------------------- fhd.py ------------------------------- *)
matchings == {"default", "greedy", "optimal"}

LayerIdx(N) == 0..(N - 1)

(* np.roll(x, shift): element k of the result is element k - shift of x.   *)
roll(x, shift) == [k \in DOMAIN x |-> x[((k - 1 - shift) % Len(x)) + 1]]

(* FHD.__getitem__ with a pair index: self.fhistograms[i, j] *)
GetItem(F, i, j) == F.fhistograms[<<i, j>>]

EmptyMatching == [k \in {} |-> 0]

(* range(N): the list 0, 1, ..., N - 1 *)
range(N) == [k \in 1..N |-> k - 1]

RemoveAt(s, pos) == SubSeq(s, 1, pos - 1) \o SubSeq(s, pos + 1, Len(s))

(* The first hdist.distance call a matching makes, on the two first        *)
(* shapes: every later call has the same lengths and the same metric, so   *)
(* it raises if and only if this one does.  No call is made when N = 0.    *)
first_call(F, G, m) ==
    IF F.N > 0 THEN hdist_distance(GetItem(F, 0, 0), GetItem(G, 0, 0), m) ELSE Return(FALSE, 0)

shape_dist(F, G, m, i, j) == hdist_distance(GetItem(F, i, i), GetItem(G, j, j), m).val

NoMatching(kind) == [kind |-> kind, distance |-> 0, matching |-> EmptyMatching]

(* for j in choices: the distance of A[i, i] to B[j, j], in list order *)
RECURSIVE dists_of(_, _, _, _, _, _)
dists_of(F, G, m, i, choices, k) ==
    IF k > Len(choices) THEN <<>>
    ELSE <<shape_dist(F, G, m, i, choices[k])>> \o dists_of(F, G, m, i, choices, k + 1)

(* dists[distance] = j for the choices in order, then dists[min_dist]: the *)
(* position in choices of the LAST j whose distance is min_dist.           *)
dict_lookup(ds, min_dist) ==
    CHOOSE k \in DOMAIN ds :
        /\ ds[k] = min_dist
        /\ \A l \in DOMAIN ds : ds[l] = min_dist => l <= k

(* Variant of greedy_assign that leaves the chosen index among the choices *)
greedy_assign_keep_choice(st, i, min_dist, pos) ==
    [distance |-> st.distance + min_dist,
     matching |-> st.matching @@ (i :> st.choices[pos]),
     choices |-> st.choices]

(* distance += min_dist; matching[i] = dists[min_dist];                    *)
(* choices.remove(dists[min_dist])                                         *)
greedy_assign(st, i, min_dist, pos) ==
    [distance |-> st.distance + min_dist,
     matching |-> st.matching @@ (i :> st.choices[pos]),
     choices |-> RemoveAt(st.choices, pos)]

greedy_pick(st, i, ds, min_dist) == greedy_assign(st, i, min_dist, dict_lookup(ds, min_dist))

(* One pass of the loop body of greedy_shape_matching for index i *)
greedy_step(F, G, m, i, st, ds) == greedy_pick(st, i, ds, MinSeq(ds))

RECURSIVE greedy_loop(_, _, _, _, _)
greedy_loop(F, G, m, i, st) ==
    IF i >= F.N THEN st
    ELSE greedy_loop(F, G, m, i + 1,
                     greedy_step(F, G, m, i, st, dists_of(F, G, m, i, st.choices, 1)))

greedy_result(kind, st) ==
    IF kind # "ok" THEN NoMatching(kind)
    ELSE [kind |-> "ok", distance |-> st.distance, matching |-> st.matching]

greedy_shape_matching(F, G, m) ==
    IF F.N # G.N THEN NoMatching("ValueError")
    ELSE greedy_result(first_call(F, G, m).kind,
                       IF first_call(F, G, m).kind # "ok" THEN <<>>
                       ELSE greedy_loop(F, G, m, 0,
                               [distance |-> 0, matching |-> EmptyMatching,
                                choices |-> range(F.N)]))

(* itertools.permutations(items): every ordering of items, those that      *)
(* start with items[1] first, then those that start with items[2], ...:    *)
(* lexicographic order when items is range(N).  Permutation p maps layer i *)
(* to p[i + 1].                                                            *)
RECURSIVE permutations(_)
RECURSIVE permutations_from(_, _)
RECURSIVE prepend_all(_, _, _)
prepend_all(x, tails, n) ==
    IF n > Len(tails) THEN <<>> ELSE <<<<x>> \o tails[n]>> \o prepend_all(x, tails, n + 1)

permutations(items) ==
    IF items = <<>> THEN << <<>> >> ELSE permutations_from(items, 1)

permutations_from(items, k) ==
    IF k > Len(items) THEN <<>>
    ELSE prepend_all(items[k], permutations(RemoveAt(items, k)), 1)
         \o permutations_from(items, k + 1)

(* distances[i, j] = hdist.distance(A[i, i], B[j, j], metric) *)
RECURSIVE distances_row(_, _, _, _, _)
distances_row(F, G, m, i, j) ==
    IF j >= G.N THEN <<>>
    ELSE <<shape_dist(F, G, m, i, j)>> \o distances_row(F, G, m, i, j + 1)

RECURSIVE distances_rows(_, _, _, _)
distances_rows(F, G, m, i) ==
    IF i >= F.N THEN <<>>
    ELSE <<distances_row(F, G, m, i, 0)>> \o distances_rows(F, G, m, i + 1)

(* for i, j in enumerate(permutation): distance += distances[i, j] *)
RECURSIVE perm_sum(_, _, _)
perm_sum(distances, p, i) ==
    IF i > Len(p) THEN 0 ELSE distances[i][p[i] + 1] + perm_sum(distances, p, i + 1)

RECURSIVE perm_sums(_, _, _)
perm_sums(distances, ps, k) ==
    IF k > Len(ps) THEN <<>>
    ELSE <<perm_sum(distances, ps[k], 1)>> \o perm_sums(distances, ps, k + 1)

(* Variant of optimal_choice that keeps the first permutation enumerated.  *)
optimal_choice_no_search(sums, min_distance) == 1

(* matchings[distance] = permutation, for every permutation in order: the  *)
(* entry of a distance is the LAST permutation that has it; the result is  *)
(* the entry of min_distance = min(matchings.keys()).                      *)
optimal_choice(sums, min_distance) ==
    CHOOSE k \in DOMAIN sums :
        /\ sums[k] = min_distance
        /\ \A l \in DOMAIN sums : sums[l] = min_distance => l <= k

(* optimal_matching[i] = best_permutation[i]; return min_distance,         *)
(* optimal_matching                                                        *)
optimal_result(N, sums, best_permutation, k) ==
    [kind |-> "ok", distance |-> sums[k],
     matching |-> [i \in LayerIdx(N) |-> best_permutation[i + 1]]]

optimal_best(N, ps, sums, k) == optimal_result(N, sums, ps[k], k)

optimal_search(N, ps, sums) == optimal_best(N, ps, sums, optimal_choice(sums, MinSeq(sums)))

optimal_shape_matching(F, G, m) ==
    IF F.N # G.N THEN NoMatching("ValueError")
    ELSE IF first_call(F, G, m).kind # "ok" THEN NoMatching(first_call(F, G, m).kind)
    ELSE optimal_search(F.N, permutations(range(F.N)),
                        perm_sums(distances_rows(F, G, m, 0), permutations(range(F.N)), 1))

(* Variant of default_alpha: 1 - (1 / (N + 1)) *)
default_alpha_one(N) == [given |-> FALSE, num |-> (N + 1) - 1, den |-> N + 1]

(* alpha = 1 - (2 / (N + 1)), as the exact fraction num / den *)
default_alpha(N) == [given |-> FALSE, num |-> (N + 1) - 2, den |-> N + 1]

(* not 0 <= alpha <= 1 *)
alpha_out_of_range(al) == ~(0 <= al.num /\ al.num <= al.den)

UpperPairs(N) == {c \in LayerIdx(N) \X LayerIdx(N) : c[1] < c[2]}

(* spatial_distance += hdist.distance(A[i, j], <histogram of B>, metric);  *)
(* the record keeps what was compared: the cell (row, col) of B that was   *)
(* read, whether it was rotated, and the histogram A[i, j] was held to.    *)
compare_with(F, mt, i, j, row, col, rotated, other) ==
    [i |-> i, j |-> j, row |-> row, col |-> col, rotated |-> rotated, other |-> other,
     d |-> hdist_distance(GetItem(F, i, j), other, mt).val]

(* Variant of spatial_compare that swaps the indices and does not rotate.  *)
spatial_compare_no_roll(F, G, mt, i, j, mi, mj) ==
    IF mi <= mj
    THEN compare_with(F, mt, i, j, mi, mj, FALSE, GetItem(G, mi, mj))
    ELSE compare_with(F, mt, i, j, mj, mi, FALSE, GetItem(G, mj, mi))

(* The body of the two spatial loops, with mi, mj = matching[i],           *)
(* matching[j].                                                            *)
spatial_compare(F, G, mt, i, j, mi, mj) ==
    IF mi <= mj
    THEN compare_with(F, mt, i, j, mi, mj, FALSE, GetItem(G, mi, mj))
    ELSE compare_with(F, mt, i, j, mj, mi, TRUE, roll(GetItem(G, mj, mi), G.num_dirs \div 2))

RECURSIVE SumOver(_, _)
SumOver(S, f) ==
    IF S = {} THEN 0 ELSE LET x == CHOOSE y \in S : TRUE IN f[x] + SumOver(S \ {x}, f)

RECURSIVE sum_d(_)
sum_d(cmps) ==
    IF cmps = {} THEN 0 ELSE LET r == CHOOSE y \in cmps : TRUE IN r.d + sum_d(cmps \ {r})

(* for i in range(N): for j in range(i + 1, N): ... *)
spatial_loop(F, G, mt, m) ==
    {spatial_compare(F, G, mt, c[1], c[2], m[c[1]], m[c[2]]) : c \in UpperPairs(F.N)}

(* What a branch of distance leaves: the two sums, the matching m it used  *)
(* for the spatial term, the set "paired" of <<A layer, B layer>> pairs    *)
(* whose distances make up shape_distance, and the number of               *)
(* hdist.distance calls it made.                                           *)
branch_result(shape_distance, m, paired, calls, comparisons) ==
    [shape_distance |-> shape_distance, m |-> m, paired |-> paired,
     comparisons |-> comparisons, spatial_distance |-> sum_d(comparisons), calls |-> calls]

identity(N) == [k \in LayerIdx(N) |-> k]

(* matching == 'default' *)
default_branch(F, G, mt) ==
    branch_result(SumOver(LayerIdx(F.N), [k \in LayerIdx(F.N) |-> shape_dist(F, G, mt, k, k)]),
                  identity(F.N),
                  {<<k, k>> : k \in LayerIdx(F.N)},
                  F.N + Cardinality(UpperPairs(F.N)),
                  {compare_with(F, mt, c[1], c[2], c[1], c[2], FALSE, GetItem(G, c[1], c[2])) :
                      c \in UpperPairs(F.N)})

(* if matching_AB[0] <= matching_BA[0]: ... else: ...  The dictionary of   *)
(* the retained direction becomes the matching of the spatial loop.        *)
greedy_retain(F, G, mt, matching_AB, matching_BA) ==
    IF matching_AB.distance <= matching_BA.distance
    THEN [shape_distance |-> matching_AB.distance, matching |-> matching_AB.matching,
          paired |-> {<<k, matching_AB.matching[k]>> : k \in LayerIdx(F.N)}]
    ELSE [shape_distance |-> matching_BA.distance, matching |-> matching_BA.matching,
          paired |-> {<<matching_BA.matching[k], k>> : k \in LayerIdx(F.N)}]

greedy_spatial(F, G, mt, kept) ==
    branch_result(kept.shape_distance, kept.matching, kept.paired,
                  (F.N * (F.N + 1)) + Cardinality(UpperPairs(F.N)),
                  spatial_loop(F, G, mt, kept.matching))

(* matching == 'greedy' *)
greedy_branch(F, G, mt) ==
    greedy_spatial(F, G, mt,
                   greedy_retain(F, G, mt, greedy_shape_matching(F, G, mt),
                                 greedy_shape_matching(G, F, mt)))

optimal_spatial(F, G, mt, om) ==
    branch_result(om.distance, om.matching,
                  {<<k, om.matching[k]>> : k \in LayerIdx(F.N)},
                  (F.N * F.N) + Cardinality(UpperPairs(F.N)),
                  spatial_loop(F, G, mt, om.matching))

(* matching == 'optimal' *)
optimal_branch(F, G, mt) == optimal_spatial(F, G, mt, optimal_shape_matching(F, G, mt))

Fail(kind, work) == [kind |-> kind, normalized |-> work]

(* return (alpha * shape_distance) + ((1 - alpha) * spatial_distance): the *)
(* value returned is value.num / value.den.                                *)
weighted(al, br) ==
    [kind |-> "ok",
     normalized |-> 2 * br.calls,
     alpha |-> [num |-> al.num, den |-> al.den],
     shape_distance |-> br.shape_distance,
     spatial_distance |-> br.spatial_distance,
     m |-> br.m,
     paired |-> br.paired,
     comparisons |-> br.comparisons,
     value |-> [num |-> (al.num * br.shape_distance)
                        + ((al.den - al.num) * br.spatial_distance),
                den |-> al.den * Unit]]

branches(F, G, mt, mg) ==
    IF mg = "default" THEN default_branch(F, G, mt)
    ELSE IF mg = "greedy" THEN greedy_branch(F, G, mt)
    ELSE optimal_branch(F, G, mt)

(* The branches, entered with valid sizes, alpha and strategy: the first   *)
(* hdist.distance call raises on an invalid metric.                        *)
distance_body(F, G, mt, mg, al, first) ==
    IF first.kind # "ok" THEN Fail(first.kind, first.normalized)
    ELSE weighted(al, branches(F, G, mt, mg))

(* fhd.distance(A, B, metric, matching, alpha) *)
distance(F, G, mt, mg, al) ==
    IF F.N # G.N THEN Fail("ValueError", 0)
    ELSE IF al.given /\ alpha_out_of_range(al) THEN Fail("ValueError", 0)
    ELSE IF mg \notin matchings THEN Fail("ValueError", 0)
    ELSE distance_body(F, G, mt, mg, IF al.given THEN al ELSE default_alpha(F.N),
                       first_call(F, G, mt))

(* FHD.__init__: N and num_dirs are the first and last extent of the array *)
FHD(fhistograms, n0, n2, shape_force, spatial_force) ==
    [N |-> n0, num_dirs |-> n2, fhistograms |-> fhistograms,
     shape_force |-> shape_force, spatial_force |-> spatial_force]

(* np.ndarray((N, N, num_dirs)) is not initialized: the cells below the    *)
(* diagonal of a descriptor are never written.                             *)
Uninitialized(D) == [k \in 1..D |-> -1]

(* ----------------------- fhd.py: dump and load ------------------------ *)
RECURSIVE Pow10(_)
Pow10(n) == IF n = 0 THEN 1 ELSE 10 * Pow10(n - 1)

RECURSIVE Exponent(_)
Exponent(v) == IF v < 10 THEN 0 ELSE 1 + Exponent(v \div 10)

(* np.savetxt writes a value with '%.18e': leading digit, fraction digits  *)
(* and decimal exponent (the value is a non-negative whole number here).   *)
Format(v) ==
    [lead |-> v \div Pow10(Exponent(v)), frac |-> v % Pow10(Exponent(v)), e |-> Exponent(v)]

(* np.loadtxt reads a field as a float *)
Parse(t) == (t.lead * Pow10(t.e)) + t.frac

(* np.triu_indices(N): the cells i <= j, row by row *)
RECURSIVE triu_row(_, _, _)
triu_row(i, j, N) == IF j >= N THEN <<>> ELSE << <<i, j>> >> \o triu_row(i, j + 1, N)

RECURSIVE triu_from(_, _)
triu_from(i, N) == IF i >= N THEN <<>> ELSE triu_row(i, i, N) \o triu_from(i + 1, N)

triu_indices(N) == triu_from(0, N)

(* FHD.dump: np.savetxt(filename, self.fhistograms[np.triu_indices(self.N)]) *)
(* The file is the sequence of its lines, a line the sequence of fields.   *)
dump(F) ==
    LET idx == triu_indices(F.N)
    IN [r \in 1..Len(idx) |-> [k \in 1..F.num_dirs |-> Format(F.fhistograms[idx[r]][k])]]

(* np.loadtxt(filename): the table of the file, with every extent of 1     *)
(* squeezed away (ndmin=0).                                                *)
loadtxt(f) ==
    LET R == Len(f)
        C == IF R = 0 THEN 0 ELSE Len(f[1])
        rows == [r \in 1..R |-> [k \in 1..C |-> Parse(f[r][k])]]
    IN IF R = 0 THEN [shape |-> <<0>>, data |-> <<>>]
       ELSE IF R = 1 /\ C = 1 THEN [shape |-> <<>>, data |-> rows[1][1]]
       ELSE IF R = 1 THEN [shape |-> <<C>>, data |-> rows[1]]
       ELSE IF C = 1 THEN [shape |-> <<R>>, data |-> [r \in 1..R |-> rows[r][1]]]
       ELSE [shape |-> <<R, C>>, data |-> rows]

(* FHD.load(filename, N, shape_force, spatial_force) *)
load(f, N, shape_force, spatial_force) ==
    LET fhistograms_from_file == loadtxt(f)
        shape == fhistograms_from_file.shape
        idx == triu_indices(N)
    IN IF shape = <<>> THEN [kind |-> "IndexError"]
       ELSE LET num_dirs == shape[Len(shape)]
            IN IF Len(shape) = 2 /\ shape[1] # Len(idx) /\ shape[1] # 1
               THEN [kind |-> "ValueError"]
               ELSE [kind |-> "ok",
                     fhd |-> FHD([c \in LayerIdx(N) \X LayerIdx(N) |->
                                    IF c[1] > c[2] THEN Uninitialized(num_dirs)
                                    ELSE IF Len(shape) = 1 THEN fhistograms_from_file.data
                                    ELSE LET r == CHOOSE n \in 1..Len(idx) : idx[n] = c
                                         IN fhistograms_from_file.data[IF shape[1] = 1 THEN 1 ELSE r]],
                                N, num_dirs, shape_force, spatial_force)]

(* ------------------------- descriptor inputs -------------------------- *)
(* Shape histograms: MaxVal in the first bucket, in the first two buckets,  *)
(* or in the last bucket, and 0 elsewhere.  None has zero range.           *)
ShapeHists ==
    {[k \in 1..NumDirs |-> IF k <= w THEN MaxVal ELSE 0] : w \in 1..2}
    \cup {[k \in 1..NumDirs |-> IF k = NumDirs THEN MaxVal ELSE 0]}

Peak == [k \in 1..NumDirs |-> IF k = NumDirs THEN MaxVal ELSE 0]

(* A descriptor with the given shapes (layer k has shapes[k + 1]); the     *)
(* spatial histogram of the pair i < j is rel turned by i + j buckets.     *)
Descriptor(shapes, rel) ==
    LET N == Len(shapes)
    IN FHD([c \in LayerIdx(N) \X LayerIdx(N) |->
               IF c[1] = c[2] THEN shapes[c[1] + 1]
               ELSE IF c[1] < c[2] THEN roll(rel, c[1] + c[2])
               ELSE Uninitialized(NumDirs)],
           N, NumDirs, 0, 0)

DescriptorsOf(N, rels) == {Descriptor(sh, rel) : sh \in [1..N -> ShapeHists], rel \in rels}

ImplementedMetrics == {"L1", "L2", "chi2", "jaccard"}

(* The metrics of the runs on pairs of different descriptors: on           *)
(* ShapeHists the totals of L1 tie (1 + 2 = 3), those of L2 do not.        *)
PairMetrics == {"L1", "L2"}

Alphas == {NoAlpha} \cup {[given |-> TRUE, num |-> n, den |-> 2] : n \in 0..2}

BadAlphas == {[given |-> TRUE, num |-> n, den |-> 2] : n \in {-1, 3}}

(* ---------------------- specification: fhd.distance ------------------- *)
(* Two descriptors of the same size, valid arguments, alpha omitted.       *)
Init ==
    /\ pc = "call"
    /\ \E N \in 0..MaxN :
          /\ A \in DescriptorsOf(N, {Peak})
          /\ B \in DescriptorsOf(N, {Peak})
    /\ metric \in PairMetrics
    /\ matching \in matchings
    /\ alpha = NoAlpha
    /\ a = <<>>
    /\ b = <<>>
    /\ result = NoResult
    /\ file = <<>>

Distance ==
    /\ pc = "call"
    /\ pc' = "distance"
    /\ result' = distance(A, B, metric, matching, alpha)
    /\ UNCHANGED <<a, b, A, B, metric, matching, alpha, file>>

Next == Distance

Spec == Init /\ [][Next]_vars

(* ------------------- specification: the shape matchings --------------- *)
InitMatch ==
    /\ pc = "call"
    /\ \E N \in 0..MaxN :
          /\ A \in DescriptorsOf(N, {Peak})
          /\ B \in DescriptorsOf(N, {Peak})
    /\ metric \in PairMetrics
    /\ matching = "default"
    /\ alpha = NoAlpha
    /\ a = <<>>
    /\ b = <<>>
    /\ result = NoResult
    /\ file = <<>>

GreedyShapeMatching ==
    /\ pc = "call"
    /\ pc' = "greedy_shape_matching"
    /\ result' = greedy_shape_matching(A, B, metric)
    /\ UNCHANGED <<a, b, A, B, metric, matching, alpha, file>>

OptimalShapeMatching ==
    /\ pc = "call"
    /\ pc' = "optimal_shape_matching"
    /\ result' = optimal_shape_matching(A, B, metric)
    /\ UNCHANGED <<a, b, A, B, metric, matching, alpha, file>>

NextMatch == GreedyShapeMatching \/ OptimalShapeMatching

SpecMatch == InitMatch /\ [][NextMatch]_vars

(* ------------- specification: a descriptor against itself ------------- *)
InitSelf ==
    /\ pc = "call"
    /\ \E N \in 1..MaxN : A \in DescriptorsOf(N, ShapeHists)
    /\ B = A
    /\ metric \in ImplementedMetrics
    /\ matching \in matchings
    /\ alpha \in Alphas
    /\ a = <<>>
    /\ b = <<>>
    /\ result = NoResult
    /\ file = <<>>

SpecSelf == InitSelf /\ [][Next]_vars

(* ---------------- specification: argument validation ------------------ *)
(* Descriptors of every size 0..MaxN whose layers all have the same shape, *)
(* and every combination of valid and invalid arguments.                   *)
UniformDescriptors ==
    {Descriptor([k \in 1..N |-> s], s) : N \in 0..MaxN, s \in ShapeHists}

InitArgs ==
    /\ pc = "call"
    /\ A \in UniformDescriptors
    /\ B \in UniformDescriptors
    /\ metric \in MetricNames
    /\ matching \in matchings \cup {"identity"}
    /\ alpha \in Alphas \cup BadAlphas
    /\ a = <<>>
    /\ b = <<>>
    /\ result = NoResult
    /\ file = <<>>

SpecArgs == InitArgs /\ [][Next]_vars

(* ------------------- specification: dump then load ------------------- *)
(* Descriptors of 1..MaxN layers and 1..NumDirs directions; a histogram    *)
(* holds v in its last bucket and MaxVal - v in its first.                 *)
IOHists(D) ==
    {[k \in 1..D |-> IF k = D THEN v ELSE IF k = 1 THEN MaxVal - v ELSE 0] : v \in 0..MaxVal}

IODescriptors(N, D) ==
    {FHD([c \in LayerIdx(N) \X LayerIdx(N) |->
             IF c[1] <= c[2] THEN cells[c] ELSE Uninitialized(D)], N, D, 0, 0) :
        cells \in [{c \in LayerIdx(N) \X LayerIdx(N) : c[1] <= c[2]} -> IOHists(D)]}

InitIO ==
    /\ pc = "call"
    /\ \E N \in 1..MaxN, D \in 1..NumDirs : A \in IODescriptors(N, D)
    /\ B = NoDescriptor
    /\ metric = "L2"
    /\ matching = "default"
    /\ alpha = NoAlpha
    /\ a = <<>>
    /\ b = <<>>
    /\ result = NoResult
    /\ file = <<>>

Dump ==
    /\ pc = "call"
    /\ pc' = "dump"
    /\ file' = dump(A)
    /\ UNCHANGED <<a, b, A, B, metric, matching, alpha, result>>

Load ==
    /\ pc = "dump"
    /\ pc' = "load"
    /\ result' = load(file, A.N, A.shape_force, A.spatial_force)
    /\ UNCHANGED <<a, b, A, B, metric, matching, alpha, file>>

NextIO == Dump \/ Load

SpecIO == InitIO /\ [][NextIO]_vars

(* ---------------------- specification: hdist.distance ----------------- *)
InitHdist ==
    /\ pc = "call"
    /\ \E n1 \in 1..NumDirs, n2 \in 1..NumDirs :
          /\ a \in HistsOfLen(n1)
          /\ b \in HistsOfLen(n2)
    /\ metric \in MetricNames
    /\ A = NoDescriptor
    /\ B = NoDescriptor
    /\ matching = "default"
    /\ alpha = NoAlpha
    /\ result = NoResult
    /\ file = <<>>

HdistCall ==
    /\ pc = "call"
    /\ pc' = "done"
    /\ result' = hdist_distance(a, b, metric)
    /\ UNCHANGED <<a, b, A, B, metric, matching, alpha, file>>

NextHdist == HdistCall

SpecHdist == InitHdist /\ [][NextHdist]_vars

(* ------------------------------ properties ---------------------------- *)
Returned == result.kind = "ok"

ShapeD(i, j) == shape_dist(A, B, metric, i, j)

Bijections(N) ==
    {p \in [LayerIdx(N) -> LayerIdx(N)] : \A x, y \in LayerIdx(N) : p[x] = p[y] => x = y}

TotalOf(p, N) == SumOver(LayerIdx(N), [k \in LayerIdx(N) |-> ShapeD(k, p[k])])

LexBefore(p, q, N) ==
    \E k \in LayerIdx(N) : p[k] < q[k] /\ \A l \in 0..(k - 1) : p[l] = q[l]

(* C1: the distance of a descriptor to itself is 0, shape term and spatial *)
(* term alike, for every matching strategy and every alpha in [0,1].       *)
C1_SelfDistanceIsZero ==
    (pc = "distance" /\ A = B) =>
        /\ Returned
        /\ result.shape_distance = 0
        /\ result.spatial_distance = 0
        /\ result.value.num = 0

(* C2: with a greedy or optimal matching m, the pair i < j of A is         *)
(* compared with B[m(i), m(j)] as stored when m(i) <= m(j), and with       *)
(* B[m(j), m(i)] rotated by D // 2 buckets when m(i) > m(j); no cell of B  *)
(* below the diagonal is read, and the rotation happens exactly when the   *)
(* matching reverses the pair.                                             *)
C2_SwapAndRotate ==
    (pc = "distance" /\ matching \in {"greedy", "optimal"} /\ Returned) =>
        LET m == result.m
            expected(i, j) ==
                IF m[i] <= m[j] THEN GetItem(B, m[i], m[j])
                ELSE roll(GetItem(B, m[j], m[i]), B.num_dirs \div 2)
        IN /\ Cardinality(result.comparisons) = Cardinality(UpperPairs(A.N))
           /\ \A c \in UpperPairs(A.N) : \E r \in result.comparisons :
                 /\ r.i = c[1] /\ r.j = c[2]
                 /\ r.row = Min2(m[c[1]], m[c[2]])
                 /\ r.col = Max2(m[c[1]], m[c[2]])
                 /\ r.other = expected(c[1], c[2])
           /\ \A r \in result.comparisons :
                 /\ r.row <= r.col
                 /\ r.other # Uninitialized(B.num_dirs)
                 /\ r.rotated <=> (m[r.i] > m[r.j])
           /\ result.spatial_distance =
                 SumOver(UpperPairs(A.N),
                         [c \in UpperPairs(A.N) |->
                            hdist_distance(GetItem(A, c[1], c[2]), expected(c[1], c[2]), metric).val])

C2_Witness ==
    /\ pc = "distance"
    /\ matching = "optimal"
    /\ Returned
    /\ \E r \in result.comparisons : r.rotated /\ r.other # GetItem(B, r.row, r.col)
    /\ \E r \in result.comparisons : ~r.rotated

(* C3: optimal_shape_matching returns the minimum total over all           *)
(* permutations, and of the permutations that attain it the FIRST in       *)
(* enumeration (lexicographic) order.                                      *)
C3_OptimalFirstMinimum ==
    (pc = "optimal_shape_matching" /\ Returned) =>
        LET N == A.N
            p == result.matching
        IN /\ p \in Bijections(N)
           /\ result.distance = TotalOf(p, N)
           /\ \A q \in Bijections(N) : TotalOf(p, N) <= TotalOf(q, N)
           /\ \A q \in Bijections(N) : TotalOf(q, N) = TotalOf(p, N) => ~LexBefore(q, p, N)

(* C4: the optimal shape distance is at most the greedy shape distance of  *)
(* the same pair, and at most the one the engine retains (the smaller of   *)
(* the A->B and B->A greedy totals).                                       *)
C4_OptimalAtMostGreedy ==
    (pc = "optimal_shape_matching" /\ Returned) =>
        /\ result.distance <= greedy_shape_matching(A, B, metric).distance
        /\ result.distance <= Min2(greedy_shape_matching(A, B, metric).distance,
                                   greedy_shape_matching(B, A, metric).distance)

C4_Witness ==
    /\ pc = "optimal_shape_matching"
    /\ Returned
    /\ A.N >= 3
    /\ result.distance < greedy_shape_matching(A, B, metric).distance
    /\ result.distance < greedy_shape_matching(B, A, metric).distance

(* C5: greedy_shape_matching gives each i, in order, an index not given to *)
(* an earlier i that is nearest among the unused ones; the mapping is a    *)
(* bijection and the distance is the sum over the assigned pairs.          *)
C5_GreedyNearestUnused ==
    (pc = "greedy_shape_matching" /\ Returned) =>
        LET N == A.N
            m == result.matching
            used(i) == {m[k] : k \in 0..(i - 1)}
        IN /\ m \in Bijections(N)
           /\ \A i \in LayerIdx(N) :
                 /\ m[i] \notin used(i)
                 /\ \A j \in LayerIdx(N) \ used(i) : ShapeD(i, m[i]) <= ShapeD(i, j)
           /\ result.distance = TotalOf(m, N)

C5_Witness ==
    /\ pc = "greedy_shape_matching"
    /\ Returned
    /\ A.N >= 3
    /\ \E j \in LayerIdx(A.N) :
          /\ j # result.matching[0]
          /\ ShapeD(0, j) = ShapeD(0, result.matching[0])
    /\ \E i \in LayerIdx(A.N) : result.matching[i] # i
    /\ result.distance > 0

C7_EagerValidation ==
    (/\ pc = "distance"
     /\ \/ A.N # B.N
        \/ alpha.given /\ alpha_out_of_range(alpha)
        \/ matching \notin {"default", "greedy", "optimal"}
        \/ \A n \in DOMAIN metrics : metric \notin metrics[n]) =>
        /\ ~Returned
        /\ result.normalized = 0

(* C8: with alpha omitted the weight is 1 - 2/(N+1) = (N-1)/(N+1); for     *)
(* N >= 1 it lies in [0,1] and weighs the N shape comparisons as much as   *)
(* the N(N-1)/2 spatial ones: alpha * N = (1 - alpha) * N(N-1)/2.          *)
C8_DefaultAlpha ==
    (pc = "distance" /\ ~alpha.given /\ Returned /\ A.N >= 1) =>
        LET N == A.N
            al == result.alpha
        IN /\ al.den > 0
           /\ al.num * (N + 1) = (N - 1) * al.den
           /\ 0 <= al.num /\ al.num <= al.den
           /\ al.num * N * 2 = (al.den - al.num) * N * (N - 1)
           /\ result.value.den = al.den * Unit
           /\ result.value.num = (al.num * result.shape_distance)
                                 + ((al.den - al.num) * result.spatial_distance)

C8_Witness ==
    /\ pc = "distance"
    /\ ~alpha.given
    /\ Returned
    /\ A.N = 3
    /\ result.alpha.num * 2 = result.alpha.den
    /\ result.shape_distance > 0
    /\ result.spatial_distance > 0

(* C9: dump followed by load with the original N and forces gives a        *)
(* descriptor of the same N and D with the same histogram in every cell    *)
(* i <= j, for every N >= 1 and D >= 1.                                    *)
C9_RoundTrip ==
    (pc = "load") =>
        /\ Returned
        /\ result.fhd.N = A.N
        /\ result.fhd.num_dirs = A.num_dirs
        /\ \A c \in LayerIdx(A.N) \X LayerIdx(A.N) :
              c[1] <= c[2] => result.fhd.fhistograms[c] = A.fhistograms[c]

(* C10: with the greedy strategy, whichever direction is retained, the     *)
(* matching m used for the spatial term sends each layer i of A to the     *)
(* layer of B it was paired with when the retained shape distance was      *)
(* accumulated.                                                            *)
C10_SpatialUsesRetainedPairing ==
    (pc = "distance" /\ matching = "greedy" /\ Returned) =>
        /\ {<<i, result.m[i]>> : i \in LayerIdx(A.N)} = result.paired
        /\ result.shape_distance = TotalOf(result.m, A.N)

====
